---------------------------- MODULE Spec2Model ----------------------------
(***************************************************************************)
(* Model of hwdog.c, the ATtiny13 hardware watchdog.                       *)
(*                                                                         *)
(* The program is one main loop (main, hwdog.c:98-160) and one interrupt   *)
(* service routine (ISR(PCINT0_vect), hwdog.c:85-88) that may run between  *)
(* any two statements of the main loop once interrupts are enabled.  The   *)
(* main loop is modelled statement by statement with a program counter pc; *)
(* the ISR is one action that is enabled whenever the global interrupt     *)
(* flag is set.                                                            *)
(*                                                                         *)
(* Port B is modelled by the sets of pin numbers whose bit is set in DDRB  *)
(* and in PORTB: `DDRB |= _BV(x)' is DDRB \cup {x}, `DDRB &= ~_BV(x)' is   *)
(* DDRB \ {x}.                                                             *)
(***************************************************************************)
EXTENDS Integers, FiniteSets, Sequences, TLC

(***************************************************************************)
(* Build-time constants (hwdog.c:70-80).                                   *)
(***************************************************************************)
TICK_MS == 100

TIMEOUT_LED_MS == 15100

ACTIVITY_LED_MS == 200

LED_ACTV == 3

PIN_KICK == 4

LED_TIME == 0

PIN_RSTO == 1

PB3 == 3

FLASH_COUNT == 4

(***************************************************************************)
(* TIMEOUT_TICKS is TIMEOUT_MINUTES * 60 * 1000 / TICK_MS in the source    *)
(* (1800 for the shipped TIMEOUT_MINUTES = 3).  TIMEOUT_MINUTES is the     *)
(* value the README tells the user to change; the model checks the loop    *)
(* for a small threshold, MaxTimeoutTicks ticks.                           *)
(***************************************************************************)
MaxTimeoutTicks == 3

TIMEOUT_TICKS == MaxTimeoutTicks

\* uint8_t arithmetic of the two LED counters (hwdog.c:101-102)
UINT8 == 256

Min(a, b) == IF a < b THEN a ELSE b

VARIABLES
  activity_flag,       \* volatile bool activity_flag           (hwdog.c:82)
  timeout_counter,     \* uint32_t timeout_counter              (hwdog.c:100)
  timeout_led_count,   \* uint8_t timeout_led_count             (hwdog.c:101)
  activity_led_count,  \* uint8_t activity_led_count            (hwdog.c:102)
  DDRB,                \* pins of port B configured as outputs
  PORTB,               \* pins of port B whose output bit is set
  SREG_I,              \* global interrupt enable, set by sei() (hwdog.c:119)
  i,                   \* int8_t i, loop variable of FLASH      (hwdog.c:90)
  pc,                  \* position of the main loop
  \* ---- history variables: they record what happened, no action of the
  \* ---- program reads them
  branch,              \* branch taken by the tick being processed
  counter_at_tick,     \* timeout_counter when the tick read the flag
  idle_run,            \* consecutive ticks that took the idle branch
  run_origin,          \* what idle_run counts from
  first_gap,           \* idle_run at the first fire counted from power-up
  unseen,              \* an ISR write no read of the main loop has seen yet
  edges,               \* changes of the reset line during the current tick
  actv_age,            \* ticks processed since the tick that armed LED_ACTV
  time_age,            \* ticks processed since the tick that armed LED_TIME
  isr_fires,           \* ISR runs since the main loop last read the flag
  owed,                \* 0: no ISR run awaits `timeout_counter = 0';
                       \* n > 0: one does, and n - 1 ticks have ended since
  restarted,           \* the last arming found its LED count still positive
  \* ---- a second run of the same program built with other LED durations
  \* ---- and given the same ticks and interrupts
  run2

hist == <<branch, counter_at_tick, idle_run, run_origin, first_gap, unseen,
          edges, actv_age, time_age, isr_fires, owed, restarted>>

vars == <<activity_flag, timeout_counter, timeout_led_count,
          activity_led_count, DDRB, PORTB, SREG_I, i, pc,
          branch, counter_at_tick, idle_run, run_origin, first_gap, unseen,
          edges, actv_age, time_age, isr_fires, owed, restarted, run2>>

\* Durations the indicators are armed with (hwdog.c:127, hwdog.c:142)
ACTIVITY_LED_TICKS == ACTIVITY_LED_MS \div TICK_MS

TIMEOUT_LED_TICKS == TIMEOUT_LED_MS \div TICK_MS

\* Saturation points of the history counters
RunCap == TIMEOUT_TICKS + 2

ActvAgeCap == ACTIVITY_LED_TICKS + 1

TimeAgeCap == TIMEOUT_LED_TICKS + 1

\* ISR runs between two reads of the flag that are told apart
MaxIsrFires == 2

\* owed stops counting once two ticks have ended
OwedCap == 1 + 2

\* An LED lights when its pin is an output and its output bit is set.
LedOn(pin) == pin \in DDRB /\ pin \in PORTB

\* The reset line is driven when PIN_RSTO is an output; its PORTB bit is
\* never set, so a driven line is driven low.
ResetDriven == PIN_RSTO \in DDRB

(***************************************************************************)
(* Power-on state: entry of main().  Ports are tri-state on power-on       *)
(* reset, interrupts are disabled.                                         *)
(***************************************************************************)
InitRun1 ==
  /\ activity_flag = FALSE
  /\ timeout_counter = 0
  /\ timeout_led_count = 0
  /\ activity_led_count = 0
  /\ DDRB = {}
  /\ PORTB = {}
  /\ SREG_I = FALSE
  /\ i = 0
  /\ pc = "power_on"
  /\ branch = "none"
  /\ counter_at_tick = 0
  /\ idle_run = 0
  /\ run_origin = "power_up"
  /\ first_gap = 0
  /\ unseen = FALSE
  /\ edges = 0
  /\ actv_age = ActvAgeCap
  /\ time_age = TimeAgeCap
  /\ isr_fires = 0
  /\ owed = 0
  /\ restarted = FALSE

\* The state of a run at the entry of main(), built with LED durations of
\* a and t ticks (ACTIVITY_LED_MS / TICK_MS and TIMEOUT_LED_MS / TICK_MS)
Run2Start(a, t) ==
  [flag |-> FALSE, counter |-> 0, tled |-> 0, aled |-> 0, ddrb |-> {},
   portb |-> {}, sreg_i |-> FALSE, i |-> 0, pc |-> "power_on",
   actv_ticks |-> a, time_ticks |-> t]

Init ==
  /\ InitRun1
  /\ run2 = Run2Start(ACTIVITY_LED_TICKS, TIMEOUT_LED_TICKS)

\* LED durations the second run is built with: 1..MaxAltLedTicks ticks each
MaxAltLedTicks == 2

PairInit ==
  /\ InitRun1
  /\ \E a \in 1..MaxAltLedTicks, t \in 1..MaxAltLedTicks :
        run2 = Run2Start(a, t)

\* hwdog.c:131 with `>' for `>='
TimeoutReached_Strict(c) == c > TIMEOUT_TICKS

\* timeout_counter ++ >= TIMEOUT_TICKS compares the value before the
\* increment (hwdog.c:131)
TimeoutReached(c) == c >= TIMEOUT_TICKS

(***************************************************************************)
(* Two runs side by side.  The second run is the same program, statement   *)
(* for statement, held in the record run2 and built with its own LED       *)
(* durations.  Both runs get the same input: every action below moves the  *)
(* second run by the same statement, or by the same interrupt, as the      *)
(* first.  No action of the first run reads run2.                          *)
(***************************************************************************)
\* ISR(PCINT0_vect), hwdog.c:85-88, in the second run
Isr2(r) == IF r.sreg_i THEN [r EXCEPT !.flag = TRUE] ELSE r

\* hwdog.c:145-158 in the second run: one LED count and its output bit
Led2Count(c) == IF c > 0 THEN (c + UINT8 - 1) % UINT8 ELSE c

Led2Port(c, port, pin) ==
  IF c > 0 /\ Led2Count(c) = 0 THEN port \ {pin} ELSE port

\* The next statement of main(), hwdog.c:105-159, in the second run
Main2(r) ==
  CASE r.pc = "power_on" ->
         [r EXCEPT !.ddrb = @ \cup {LED_ACTV, LED_TIME},
                   !.portb = @ \cup {LED_ACTV, LED_TIME},
                   !.pc = "leds_off"]
    [] r.pc = "leds_off" ->
         [r EXCEPT !.portb = @ \ {LED_ACTV, LED_TIME}, !.pc = "enable"]
    [] r.pc = "enable" ->
         [r EXCEPT !.sreg_i = TRUE, !.pc = "delay"]
    [] r.pc = "delay" ->
         [r EXCEPT !.pc = "read"]
    [] r.pc = "read" ->
         [r EXCEPT !.pc = IF r.flag THEN "consume" ELSE "compare"]
    [] r.pc = "consume" ->
         [r EXCEPT !.flag = FALSE,
                   !.counter = 0,
                   !.aled = r.actv_ticks,
                   !.ddrb = @ \cup {LED_ACTV},
                   !.portb = @ \cup {LED_ACTV},
                   !.pc = "led_time"]
    [] r.pc = "compare" ->
         [r EXCEPT !.counter = @ + 1,
                   !.pc = IF TimeoutReached(r.counter)
                            THEN "flash" ELSE "led_time"]
    [] r.pc = "flash" ->
         [r EXCEPT !.ddrb = @ \cup {PB3}, !.i = 0, !.pc = "flash_loop"]
    [] r.pc = "flash_loop" ->
         IF r.i < FLASH_COUNT
           THEN [r EXCEPT !.portb = @ \cup {PB3}, !.pc = "flash_off"]
           ELSE [r EXCEPT !.ddrb = @ \ {PB3}, !.pc = "timeout_led"]
    [] r.pc = "flash_off" ->
         [r EXCEPT !.portb = @ \ {PB3}, !.i = @ + 1, !.pc = "flash_loop"]
    [] r.pc = "timeout_led" ->
         [r EXCEPT !.portb = @ \cup {LED_TIME},
                   !.ddrb = @ \cup {LED_TIME},
                   !.pc = "assert"]
    [] r.pc = "assert" ->
         [r EXCEPT !.ddrb = @ \cup {PIN_RSTO}, !.pc = "pulse"]
    [] r.pc = "pulse" ->
         [r EXCEPT !.pc = "release"]
    [] r.pc = "release" ->
         [r EXCEPT !.ddrb = @ \ {PIN_RSTO}, !.pc = "rearm"]
    [] r.pc = "rearm" ->
         [r EXCEPT !.tled = r.time_ticks, !.counter = 0, !.pc = "led_time"]
    [] r.pc = "led_time" ->
         [r EXCEPT !.tled = Led2Count(r.tled),
                   !.portb = Led2Port(r.tled, r.portb, LED_TIME),
                   !.pc = "led_actv"]
    [] r.pc = "led_actv" ->
         [r EXCEPT !.aled = Led2Count(r.aled),
                   !.portb = Led2Port(r.aled, r.portb, LED_ACTV),
                   !.pc = "delay"]

(***************************************************************************)
(* ISR(PCINT0_vect), hwdog.c:85-88.                                        *)
(***************************************************************************)
ISR_ResetsCounter ==
  /\ SREG_I
  /\ activity_flag' = TRUE
  /\ timeout_counter' = 0
  /\ unseen' = TRUE
  /\ isr_fires' = Min(isr_fires + 1, MaxIsrFires)
  /\ owed' = IF owed = 0 THEN 1 ELSE owed
  /\ UNCHANGED <<timeout_led_count, activity_led_count, DDRB, PORTB,
                 SREG_I, i, pc, branch, counter_at_tick, idle_run,
                 run_origin, first_gap, edges, actv_age, time_age,
                 restarted>>
  /\ run2' = Isr2(run2)

\* hwdog.c:87 written as `activity_flag = !activity_flag': a second trigger
\* undoes the first
ISR_TogglesFlag ==
  /\ SREG_I
  /\ activity_flag' = ~activity_flag
  /\ unseen' = TRUE
  /\ isr_fires' = Min(isr_fires + 1, MaxIsrFires)
  /\ owed' = IF owed = 0 THEN 1 ELSE owed
  /\ UNCHANGED <<timeout_counter, timeout_led_count, activity_led_count,
                 DDRB, PORTB, SREG_I, i, pc, branch, counter_at_tick,
                 idle_run, run_origin, first_gap, edges, actv_age,
                 time_age, restarted>>
  /\ run2' = Isr2(run2)

ISR ==
  /\ SREG_I
  /\ activity_flag' = TRUE
  /\ unseen' = TRUE
  /\ isr_fires' = Min(isr_fires + 1, MaxIsrFires)
  /\ owed' = IF owed = 0 THEN 1 ELSE owed
  /\ UNCHANGED <<timeout_counter, timeout_led_count, activity_led_count,
                 DDRB, PORTB, SREG_I, i, pc, branch, counter_at_tick,
                 idle_run, run_origin, first_gap, edges, actv_age,
                 time_age, restarted>>
  /\ run2' = Isr2(run2)

(***************************************************************************)
(* main(), hwdog.c:105-119: the power-on light show and interrupt setup.   *)
(***************************************************************************)
PowerOnLeds ==
  /\ pc = "power_on"
  /\ DDRB' = DDRB \cup {LED_ACTV, LED_TIME}
  /\ PORTB' = PORTB \cup {LED_ACTV, LED_TIME}
  /\ pc' = "leds_off"
  /\ UNCHANGED <<activity_flag, timeout_counter, timeout_led_count,
                 activity_led_count, SREG_I, i>>
  /\ UNCHANGED hist
  /\ run2' = Main2(run2)

PowerOnLedsOff ==
  /\ pc = "leds_off"
  /\ PORTB' = PORTB \ {LED_ACTV, LED_TIME}
  /\ pc' = "enable"
  /\ UNCHANGED <<activity_flag, timeout_counter, timeout_led_count,
                 activity_led_count, DDRB, SREG_I, i>>
  /\ UNCHANGED hist
  /\ run2' = Main2(run2)

EnableInterrupts ==
  /\ pc = "enable"
  /\ SREG_I' = TRUE
  /\ pc' = "delay"
  /\ UNCHANGED <<activity_flag, timeout_counter, timeout_led_count,
                 activity_led_count, DDRB, PORTB, i>>
  /\ UNCHANGED hist
  /\ run2' = Main2(run2)

(***************************************************************************)
(* The loop, hwdog.c:121-159.                                              *)
(***************************************************************************)
\* _delay_ms(100), hwdog.c:122
TickDelay ==
  /\ pc = "delay"
  /\ pc' = "read"
  /\ UNCHANGED <<activity_flag, timeout_counter, timeout_led_count,
                 activity_led_count, DDRB, PORTB, SREG_I, i>>
  /\ UNCHANGED hist
  /\ run2' = Main2(run2)

\* if (activity_flag), hwdog.c:123: the read of the flag.  The clear is the
\* next statement; the ISR can run between the two.
ReadFlag ==
  /\ pc = "read"
  /\ pc' = IF activity_flag THEN "consume" ELSE "compare"
  /\ branch' = IF activity_flag THEN "activity" ELSE "idle"
  /\ counter_at_tick' = timeout_counter
  /\ idle_run' = IF activity_flag THEN 0 ELSE Min(idle_run + 1, RunCap)
  /\ run_origin' = IF activity_flag THEN "activity" ELSE run_origin
  /\ unseen' = IF activity_flag THEN FALSE ELSE unseen
  /\ edges' = 0
  /\ actv_age' = Min(actv_age + 1, ActvAgeCap)
  /\ time_age' = Min(time_age + 1, TimeAgeCap)
  /\ isr_fires' = 0
  /\ UNCHANGED <<activity_flag, timeout_counter, timeout_led_count,
                 activity_led_count, DDRB, PORTB, SREG_I, i, first_gap,
                 owed, restarted>>
  /\ run2' = Main2(run2)

\* hwdog.c:125-129 with `timeout_counter = 0' left out
ConsumeActivity_KeepsCounter ==
  /\ pc = "consume"
  /\ activity_flag' = FALSE
  /\ activity_led_count' = ACTIVITY_LED_TICKS
  /\ DDRB' = DDRB \cup {LED_ACTV}
  /\ PORTB' = PORTB \cup {LED_ACTV}
  /\ pc' = "led_time"
  /\ actv_age' = 0
  /\ restarted' = (activity_led_count > 0)
  /\ UNCHANGED <<timeout_counter, timeout_led_count, SREG_I, i, branch,
                 counter_at_tick, idle_run, run_origin, first_gap, unseen,
                 edges, time_age, isr_fires, owed>>
  /\ run2' = Main2(run2)

\* hwdog.c:125-131 with the `else' of line 131 left out: the timeout check
\* follows the activity branch
ConsumeActivity_FallsThrough ==
  /\ pc = "consume"
  /\ activity_flag' = FALSE
  /\ timeout_counter' = 0
  /\ activity_led_count' = ACTIVITY_LED_TICKS
  /\ DDRB' = DDRB \cup {LED_ACTV}
  /\ PORTB' = PORTB \cup {LED_ACTV}
  /\ pc' = "compare"
  /\ actv_age' = 0
  /\ restarted' = (activity_led_count > 0)
  /\ owed' = 0
  /\ UNCHANGED <<timeout_led_count, SREG_I, i, branch, counter_at_tick,
                 idle_run, run_origin, first_gap, unseen, edges, time_age,
                 isr_fires>>
  /\ run2' = Main2(run2)

\* hwdog.c:127 written as `activity_led_count += ...': re-arming extends
ConsumeActivity_Accumulates ==
  /\ pc = "consume"
  /\ activity_flag' = FALSE
  /\ timeout_counter' = 0
  /\ activity_led_count' = (activity_led_count + ACTIVITY_LED_TICKS) % UINT8
  /\ DDRB' = DDRB \cup {LED_ACTV}
  /\ PORTB' = PORTB \cup {LED_ACTV}
  /\ pc' = "led_time"
  /\ actv_age' = 0
  /\ restarted' = (activity_led_count > 0)
  /\ owed' = 0
  /\ UNCHANGED <<timeout_led_count, SREG_I, i, branch, counter_at_tick,
                 idle_run, run_origin, first_gap, unseen, edges, time_age,
                 isr_fires>>
  /\ run2' = Main2(run2)

\* hwdog.c:127 with ACTIVITY_LED_MS equal to TICK_MS: the count is armed with
\* one tick and the update of the same tick takes it to zero
ConsumeActivity_ArmsOneTick ==
  /\ pc = "consume"
  /\ activity_flag' = FALSE
  /\ timeout_counter' = 0
  /\ activity_led_count' = TICK_MS \div TICK_MS
  /\ DDRB' = DDRB \cup {LED_ACTV}
  /\ PORTB' = PORTB \cup {LED_ACTV}
  /\ pc' = "led_time"
  /\ actv_age' = 0
  /\ restarted' = (activity_led_count > 0)
  /\ owed' = 0
  /\ UNCHANGED <<timeout_led_count, SREG_I, i, branch, counter_at_tick,
                 idle_run, run_origin, first_gap, unseen, edges, time_age,
                 isr_fires>>
  /\ run2' = Main2(run2)

\* The activity branch, hwdog.c:125-129
ConsumeActivity ==
  /\ pc = "consume"
  /\ activity_flag' = FALSE
  /\ timeout_counter' = 0
  /\ activity_led_count' = ACTIVITY_LED_TICKS
  /\ DDRB' = DDRB \cup {LED_ACTV}
  /\ PORTB' = PORTB \cup {LED_ACTV}
  /\ pc' = "led_time"
  /\ actv_age' = 0
  /\ restarted' = (activity_led_count > 0)
  /\ owed' = 0
  /\ UNCHANGED <<timeout_led_count, SREG_I, i, branch, counter_at_tick,
                 idle_run, run_origin, first_gap, unseen, edges, time_age,
                 isr_fires>>
  /\ run2' = Main2(run2)

\* hwdog.c:131 without the increment
CompareIdle_NoIncrement ==
  /\ pc = "compare"
  /\ pc' = IF TimeoutReached(timeout_counter) THEN "flash" ELSE "led_time"
  /\ branch' = IF TimeoutReached(timeout_counter) THEN "fire" ELSE branch
  /\ UNCHANGED <<activity_flag, timeout_counter, timeout_led_count,
                 activity_led_count, DDRB, PORTB, SREG_I, i,
                 counter_at_tick, idle_run, run_origin, first_gap, unseen,
                 edges, actv_age, time_age, isr_fires, owed, restarted>>
  /\ run2' = Main2(run2)

\* hwdog.c:131 made to wait while the timeout LED still shows the last reset
CompareIdle_WaitsForLed ==
  /\ pc = "compare"
  /\ timeout_counter' = timeout_counter + 1
  /\ pc' = IF TimeoutReached(timeout_counter) /\ timeout_led_count = 0
             THEN "flash" ELSE "led_time"
  /\ branch' = IF TimeoutReached(timeout_counter) /\ timeout_led_count = 0
                 THEN "fire" ELSE branch
  /\ UNCHANGED <<activity_flag, timeout_led_count, activity_led_count,
                 DDRB, PORTB, SREG_I, i, counter_at_tick, idle_run,
                 run_origin, first_gap, unseen, edges, actv_age, time_age,
                 isr_fires, owed, restarted>>
  /\ run2' = Main2(run2)

\* else if (timeout_counter ++ >= TIMEOUT_TICKS), hwdog.c:131
CompareIdle ==
  /\ pc = "compare"
  /\ timeout_counter' = timeout_counter + 1
  /\ pc' = IF TimeoutReached(timeout_counter) THEN "flash" ELSE "led_time"
  /\ branch' = IF TimeoutReached(timeout_counter) THEN "fire" ELSE branch
  /\ UNCHANGED <<activity_flag, timeout_led_count, activity_led_count,
                 DDRB, PORTB, SREG_I, i, counter_at_tick, idle_run,
                 run_origin, first_gap, unseen, edges, actv_age, time_age,
                 isr_fires, owed, restarted>>
  /\ run2' = Main2(run2)

\* FLASH_TEST(PB3), hwdog.c:90 and 133: DDRB |= _BV(x); for (i = 0; ...
FlashBegin ==
  /\ pc = "flash"
  /\ DDRB' = DDRB \cup {PB3}
  /\ i' = 0
  /\ pc' = "flash_loop"
  /\ UNCHANGED <<activity_flag, timeout_counter, timeout_led_count,
                 activity_led_count, PORTB, SREG_I>>
  /\ UNCHANGED hist
  /\ run2' = Main2(run2)

\* i < 4: PORTB |= _BV(x); _delay_ms(330)     otherwise: DDRB &= ~_BV(x)
FlashLoop ==
  /\ pc = "flash_loop"
  /\ IF i < FLASH_COUNT
       THEN /\ PORTB' = PORTB \cup {PB3}
            /\ pc' = "flash_off"
            /\ UNCHANGED DDRB
       ELSE /\ DDRB' = DDRB \ {PB3}
            /\ pc' = "timeout_led"
            /\ UNCHANGED PORTB
  /\ UNCHANGED <<activity_flag, timeout_counter, timeout_led_count,
                 activity_led_count, SREG_I, i>>
  /\ UNCHANGED hist
  /\ run2' = Main2(run2)

\* PORTB &= ~_BV(x); _delay_ms(330); i++
FlashOff ==
  /\ pc = "flash_off"
  /\ PORTB' = PORTB \ {PB3}
  /\ i' = i + 1
  /\ pc' = "flash_loop"
  /\ UNCHANGED <<activity_flag, timeout_counter, timeout_led_count,
                 activity_led_count, DDRB, SREG_I>>
  /\ UNCHANGED hist
  /\ run2' = Main2(run2)

\* hwdog.c:135-136 left out: the LED is not switched on ahead of the pulse
TimeoutLedOn_NoOutput ==
  /\ pc = "timeout_led"
  /\ pc' = "assert"
  /\ UNCHANGED <<activity_flag, timeout_counter, timeout_led_count,
                 activity_led_count, DDRB, PORTB, SREG_I, i>>
  /\ UNCHANGED hist
  /\ run2' = Main2(run2)

\* Turn on timeout LED, hwdog.c:135-136
TimeoutLedOn ==
  /\ pc = "timeout_led"
  /\ PORTB' = PORTB \cup {LED_TIME}
  /\ DDRB' = DDRB \cup {LED_TIME}
  /\ pc' = "assert"
  /\ UNCHANGED <<activity_flag, timeout_counter, timeout_led_count,
                 activity_led_count, SREG_I, i>>
  /\ UNCHANGED hist
  /\ run2' = Main2(run2)

\* DDRB |= _BV(PIN_RSTO), hwdog.c:138
AssertReset ==
  /\ pc = "assert"
  /\ DDRB' = DDRB \cup {PIN_RSTO}
  /\ pc' = "pulse"
  /\ edges' = Min(edges + 1, 3)
  /\ UNCHANGED <<activity_flag, timeout_counter, timeout_led_count,
                 activity_led_count, PORTB, SREG_I, i, branch,
                 counter_at_tick, idle_run, run_origin, first_gap, unseen,
                 actv_age, time_age, isr_fires, owed, restarted>>
  /\ run2' = Main2(run2)

\* _delay_ms(500), hwdog.c:140
PulseDelay ==
  /\ pc = "pulse"
  /\ pc' = "release"
  /\ UNCHANGED <<activity_flag, timeout_counter, timeout_led_count,
                 activity_led_count, DDRB, PORTB, SREG_I, i>>
  /\ UNCHANGED hist
  /\ run2' = Main2(run2)

\* hwdog.c:141 written as PORTB &= ~_BV(PIN_RSTO): the line stays driven
ReleaseReset_WrongRegister ==
  /\ pc = "release"
  /\ PORTB' = PORTB \ {PIN_RSTO}
  /\ pc' = "rearm"
  /\ UNCHANGED <<activity_flag, timeout_counter, timeout_led_count,
                 activity_led_count, DDRB, SREG_I, i>>
  /\ UNCHANGED hist
  /\ run2' = Main2(run2)

\* DDRB &= ~_BV(PIN_RSTO), back to tri state, hwdog.c:141
ReleaseReset ==
  /\ pc = "release"
  /\ DDRB' = DDRB \ {PIN_RSTO}
  /\ pc' = "rearm"
  /\ edges' = Min(edges + 1, 3)
  /\ UNCHANGED <<activity_flag, timeout_counter, timeout_led_count,
                 activity_led_count, PORTB, SREG_I, i, branch,
                 counter_at_tick, idle_run, run_origin, first_gap, unseen,
                 actv_age, time_age, isr_fires, owed, restarted>>
  /\ run2' = Main2(run2)

\* hwdog.c:142-143 with `timeout_counter = 0' left out
Rearm_KeepsCounter ==
  /\ pc = "rearm"
  /\ timeout_led_count' = TIMEOUT_LED_TICKS
  /\ pc' = "led_time"
  /\ first_gap' = IF first_gap = 0 /\ run_origin = "power_up"
                    THEN idle_run ELSE first_gap
  /\ idle_run' = 0
  /\ run_origin' = "fire"
  /\ time_age' = 0
  /\ restarted' = (timeout_led_count > 0)
  /\ UNCHANGED <<activity_flag, timeout_counter, activity_led_count, DDRB,
                 PORTB, SREG_I, i, branch, counter_at_tick, unseen, edges,
                 actv_age, isr_fires, owed>>
  /\ run2' = Main2(run2)

\* hwdog.c:142-143 followed by `activity_flag = false': activity seen
\* during the pulse is thrown away
Rearm_ClearsFlag ==
  /\ pc = "rearm"
  /\ timeout_led_count' = TIMEOUT_LED_TICKS
  /\ timeout_counter' = 0
  /\ activity_flag' = FALSE
  /\ pc' = "led_time"
  /\ first_gap' = IF first_gap = 0 /\ run_origin = "power_up"
                    THEN idle_run ELSE first_gap
  /\ idle_run' = 0
  /\ run_origin' = "fire"
  /\ time_age' = 0
  /\ restarted' = (timeout_led_count > 0)
  /\ owed' = 0
  /\ UNCHANGED <<activity_led_count, DDRB, PORTB, SREG_I, i, branch,
                 counter_at_tick, unseen, edges, actv_age, isr_fires>>
  /\ run2' = Main2(run2)

\* timeout_led_count = TIMEOUT_LED_MS / TICK_MS; timeout_counter = 0,
\* hwdog.c:142-143
Rearm ==
  /\ pc = "rearm"
  /\ timeout_led_count' = TIMEOUT_LED_TICKS
  /\ timeout_counter' = 0
  /\ pc' = "led_time"
  /\ first_gap' = IF first_gap = 0 /\ run_origin = "power_up"
                    THEN idle_run ELSE first_gap
  /\ idle_run' = 0
  /\ run_origin' = "fire"
  /\ time_age' = 0
  /\ restarted' = (timeout_led_count > 0)
  /\ owed' = 0
  /\ UNCHANGED <<activity_flag, activity_led_count, DDRB, PORTB, SREG_I, i,
                 branch, counter_at_tick, unseen, edges, actv_age,
                 isr_fires>>
  /\ run2' = Main2(run2)

\* if (timeout_led_count > 0) { ... }, hwdog.c:145-151
UpdateTimeoutLed ==
  /\ pc = "led_time"
  /\ IF timeout_led_count > 0
       THEN /\ timeout_led_count' = (timeout_led_count + UINT8 - 1) % UINT8
            /\ PORTB' = IF timeout_led_count' = 0
                          THEN PORTB \ {LED_TIME} ELSE PORTB
       ELSE UNCHANGED <<timeout_led_count, PORTB>>
  /\ pc' = "led_actv"
  /\ UNCHANGED <<activity_flag, timeout_counter, activity_led_count, DDRB,
                 SREG_I, i>>
  /\ UNCHANGED hist
  /\ run2' = Main2(run2)

\* hwdog.c:152-158 with the line of the timeout block copied unchanged:
\* PORTB &= ~_BV(LED_TIME) where LED_ACTV is meant
UpdateActivityLed_WrongLed ==
  /\ pc = "led_actv"
  /\ IF activity_led_count > 0
       THEN /\ activity_led_count' = (activity_led_count + UINT8 - 1) % UINT8
            /\ PORTB' = IF activity_led_count' = 0
                          THEN PORTB \ {LED_TIME} ELSE PORTB
       ELSE UNCHANGED <<activity_led_count, PORTB>>
  /\ pc' = "delay"
  /\ UNCHANGED <<activity_flag, timeout_counter, timeout_led_count, DDRB,
                 SREG_I, i>>
  /\ owed' = IF owed = 0 THEN 0 ELSE Min(owed + 1, OwedCap)
  /\ UNCHANGED <<branch, counter_at_tick, idle_run, run_origin, first_gap,
                 unseen, edges, actv_age, time_age, isr_fires, restarted>>
  /\ run2' = Main2(run2)

\* if (activity_led_count > 0) { ... }, hwdog.c:152-158
UpdateActivityLed ==
  /\ pc = "led_actv"
  /\ IF activity_led_count > 0
       THEN /\ activity_led_count' = (activity_led_count + UINT8 - 1) % UINT8
            /\ PORTB' = IF activity_led_count' = 0
                          THEN PORTB \ {LED_ACTV} ELSE PORTB
       ELSE UNCHANGED <<activity_led_count, PORTB>>
  /\ pc' = "delay"
  /\ UNCHANGED <<activity_flag, timeout_counter, timeout_led_count, DDRB,
                 SREG_I, i>>
  /\ owed' = IF owed = 0 THEN 0 ELSE Min(owed + 1, OwedCap)
  /\ UNCHANGED <<branch, counter_at_tick, idle_run, run_origin, first_gap,
                 unseen, edges, actv_age, time_age, isr_fires, restarted>>
  /\ run2' = Main2(run2)

\* Every statement of main()
MainLoop ==
  \/ PowerOnLeds
  \/ PowerOnLedsOff
  \/ EnableInterrupts
  \/ TickDelay
  \/ ReadFlag
  \/ ConsumeActivity
  \/ CompareIdle
  \/ FlashBegin
  \/ FlashLoop
  \/ FlashOff
  \/ TimeoutLedOn
  \/ AssertReset
  \/ PulseDelay
  \/ ReleaseReset
  \/ Rearm
  \/ UpdateTimeoutLed
  \/ UpdateActivityLed

Next == MainLoop \/ ISR

Spec == Init /\ [][Next]_vars

\* The main loop only ever waits in delays of fixed length, so it always
\* takes its next step; nothing is assumed about the interrupt.
LiveSpec == Init /\ [][Next]_vars /\ WF_vars(MainLoop)

\* Two builds side by side under the same ticks and interrupts
PairSpec == PairInit /\ [][Next]_vars

(***************************************************************************)
(* Positions of the main loop.                                             *)
(***************************************************************************)
\* between two ticks: the loop sits in _delay_ms(100)
TickBoundary == pc = "delay"

\* inside the timeout branch, hwdog.c:132-143
InTimeoutBranch ==
  pc \in {"flash", "flash_loop", "flash_off", "timeout_led", "assert",
          "pulse", "release", "rearm"}

\* the tick has chosen its branch and has finished it
BranchDone == pc \in {"led_time", "led_actv", "delay"} /\ branch # "none"

TypeOK ==
  /\ activity_flag \in BOOLEAN
  /\ timeout_counter \in 0..(TIMEOUT_TICKS + 1)
  /\ timeout_led_count \in 0..TIMEOUT_LED_TICKS
  /\ activity_led_count \in 0..ACTIVITY_LED_TICKS
  /\ DDRB \subseteq {LED_ACTV, LED_TIME, PIN_RSTO}
  /\ PORTB \subseteq {LED_ACTV, LED_TIME}
  /\ SREG_I \in BOOLEAN
  /\ i \in 0..FLASH_COUNT
  /\ branch \in {"none", "activity", "idle", "fire"}
  /\ idle_run \in 0..RunCap
  /\ edges \in 0..2

(***************************************************************************)
(* C1.  The reset fires exactly on the TIMEOUT_TICKS-th consecutive idle   *)
(* tick, counted from power-up, from the last tick that consumed activity  *)
(* or from the last fired reset: a tick that enters the timeout branch is  *)
(* the TIMEOUT_TICKS-th idle tick of its run, and an idle tick that does   *)
(* not enter it is an earlier one.                                         *)
(***************************************************************************)
C1_FiresOnThresholdTick ==
  /\ InTimeoutBranch => idle_run = TIMEOUT_TICKS
  /\ (BranchDone /\ branch = "idle") => idle_run < TIMEOUT_TICKS

(***************************************************************************)
(* C2.  No premature reset: whenever the timeout branch is being executed  *)
(* or the reset line is driven, the current tick and at least the          *)
(* TIMEOUT_TICKS - 1 ticks before it all took the idle branch, with no     *)
(* fired reset among them.                                                 *)
(***************************************************************************)
C2_NoPrematureReset ==
  (InTimeoutBranch \/ ResetDriven) =>
     /\ branch = "fire"
     /\ idle_run >= TIMEOUT_TICKS

\* a reset fires although activity was consumed earlier
C2_Witness ==
  ResetDriven /\ run_origin = "activity" /\ idle_run >= TIMEOUT_TICKS

(***************************************************************************)
(* C3.  Activity pre-empts the timeout: on a tick that read the flag as    *)
(* true the timeout branch is not entered and the reset line is not        *)
(* touched, whatever timeout_counter was, and timeout_counter is 0 from    *)
(* the end of the activity branch until the next tick reads the flag.      *)
(***************************************************************************)
C3_ActivityPreempts ==
  branch = "activity" =>
     /\ ~InTimeoutBranch
     /\ ~ResetDriven
     /\ edges = 0
     /\ pc # "consume" => timeout_counter = 0

\* activity consumed on the tick on which the counter had reached the
\* threshold
C3_Witness ==
  /\ TickBoundary
  /\ branch = "activity"
  /\ counter_at_tick >= TIMEOUT_TICKS
  /\ timeout_counter = 0

(***************************************************************************)
(* C4.  Liveness: the loop never stops (it reaches the tick delay again    *)
(* and again), and if from some point on the ISR never runs again, the     *)
(* reset line is driven again and again and released again and again, for  *)
(* ever.                                                                   *)
(***************************************************************************)
C4_ResetsForever ==
  /\ []<>TickBoundary
  /\ (<>[][~ISR]_vars) => ([]<>ResetDriven /\ []<>~ResetDriven)

\* a second reset in a row with no activity consumed since the first
C4_Witness == ResetDriven /\ run_origin = "fire" /\ ~activity_flag

(***************************************************************************)
(* C5.  Identical re-arming: a reset that follows a fired reset with no    *)
(* activity consumed in between fires on the TIMEOUT_TICKS-th idle tick    *)
(* after it, and that number of idle ticks equals the number of idle ticks *)
(* from power-up to the first fire.                                        *)
(***************************************************************************)
C5_RearmsAfterThreshold ==
  (InTimeoutBranch /\ run_origin = "fire") =>
     /\ idle_run = TIMEOUT_TICKS
     /\ first_gap # 0 => idle_run = first_gap

(***************************************************************************)
(* C6.  The read and the clear of activity_flag are indivisible: an ISR    *)
(* write that no read has seen yet is never overwritten by the clear, so   *)
(* while such a write is outstanding the flag is still true.               *)
(***************************************************************************)
C6_NoOverwrittenWrite == unseen => activity_flag

(***************************************************************************)
(* C7.  timeout_counter changes only in tick processing: the activity      *)
(* branch and the end of the timeout branch set it to zero, the timeout    *)
(* check adds one, and no other step (the ISR, the delays, the indicator   *)
(* updates) changes it; a tick that only idles ends with the counter one   *)
(* higher than it started, every other tick ends with zero.                *)
(***************************************************************************)
C7_CounterFrame ==
  [][ /\ timeout_counter' # timeout_counter =>
           /\ pc' # pc
           /\ pc \in {"consume", "compare", "rearm"}
      /\ (timeout_counter' = 0 /\ timeout_counter # 0) =>
           pc \in {"consume", "rearm"}
      /\ (pc = "led_actv" /\ pc' = "delay") =>
           timeout_counter' = IF branch = "idle"
                                THEN counter_at_tick + 1 ELSE 0
    ]_vars

\* an idle tick has ended one higher although the ISR ran during it
C7_Witness ==
  /\ TickBoundary
  /\ branch = "idle"
  /\ unseen
  /\ timeout_counter = counter_at_tick + 1
  /\ timeout_counter = TIMEOUT_TICKS

(***************************************************************************)
(* C8.  The reset line is driven, and driven low, only between the assert  *)
(* and the release of a fired timeout; everywhere else it is tri-stated.   *)
(* A tick that fires changes the line exactly twice (one assert, one       *)
(* release), any other tick never.                                         *)
(***************************************************************************)
C8_ResetLineOnlyInPulse ==
  /\ ResetDriven <=> pc \in {"pulse", "release"}
  /\ PIN_RSTO \notin PORTB
  /\ ResetDriven => edges = 1
  /\ BranchDone => edges = IF branch = "fire" THEN 2 ELSE 0

\* a fired timeout has completed its pulse
C8_Witness ==
  TickBoundary /\ branch = "fire" /\ edges = 2 /\ ~ResetDriven

(***************************************************************************)
(* C9.  While the reset line is driven no step changes timeout_counter,    *)
(* the indicator counts or the indicator outputs, and the main loop stays  *)
(* inside the pulse; activity_flag can only be set.                        *)
(***************************************************************************)
C9_PulseFrame ==
  [][ ResetDriven =>
        /\ timeout_counter' = timeout_counter
        /\ timeout_led_count' = timeout_led_count
        /\ activity_led_count' = activity_led_count
        /\ PORTB' = PORTB
        /\ DDRB' \ {PIN_RSTO} = DDRB \ {PIN_RSTO}
        /\ pc' \in {"pulse", "release", "rearm"}
        /\ activity_flag => activity_flag'
    ]_vars

\* the pulse has been released with everything but activity_flag as it was
\* at the assert; the flag is set
C9_Witness ==
  /\ pc = "rearm"
  /\ edges = 2
  /\ activity_flag
  /\ timeout_counter = TIMEOUT_TICKS + 1

(***************************************************************************)
(* C10.  An indicator armed with D ticks and not re-armed is on after each *)
(* of the D - 1 ticks that follow the arming tick and off after the D-th.  *)
(***************************************************************************)
C10_OnForArmedDuration ==
  TickBoundary =>
     /\ actv_age < ACTIVITY_LED_TICKS => LedOn(LED_ACTV)
     /\ actv_age >= ACTIVITY_LED_TICKS => ~LedOn(LED_ACTV)
     /\ time_age < TIMEOUT_LED_TICKS => LedOn(LED_TIME)
     /\ time_age >= TIMEOUT_LED_TICKS => ~LedOn(LED_TIME)

(***************************************************************************)
(* C11.  Re-arming restarts and never accumulates: each LED count stays in *)
(* 0..D for its duration D; a step that changes a count either arms it,    *)
(* setting it to exactly D whatever it held, or is the indicator update of *)
(* a tick, which takes exactly one off a positive count.                   *)
(***************************************************************************)
C11_RearmRestarts ==
  [][ /\ activity_led_count' \in 0..ACTIVITY_LED_TICKS
      /\ timeout_led_count' \in 0..TIMEOUT_LED_TICKS
      /\ activity_led_count' # activity_led_count =>
           \/ /\ pc = "consume"
              /\ activity_led_count' = ACTIVITY_LED_TICKS
           \/ /\ pc = "led_actv"
              /\ activity_led_count > 0
              /\ activity_led_count' = activity_led_count - 1
      /\ timeout_led_count' # timeout_led_count =>
           \/ /\ pc = "rearm"
              /\ timeout_led_count' = TIMEOUT_LED_TICKS
           \/ /\ pc = "led_time"
              /\ timeout_led_count > 0
              /\ timeout_led_count' = timeout_led_count - 1
    ]_vars

\* the activity LED has just been armed while it was still counting down
C11_Witness ==
  /\ pc = "led_time"
  /\ branch = "activity"
  /\ restarted
  /\ activity_led_count = ACTIVITY_LED_TICKS

(***************************************************************************)
(* C12.  While activity is consumed on every tick the activity LED never   *)
(* goes off: from the end of the activity branch of a tick until the next  *)
(* tick reads the flag the LED is on and its count is positive, and no     *)
(* step of a tick that took the activity branch turns the LED off, so it   *)
(* is still on when the next such tick re-arms it.                         *)
(***************************************************************************)
C12_ActivityLedStaysOn ==
  [][ /\ (branch' = "activity" /\ pc' # "consume") =>
           (LedOn(LED_ACTV)' /\ activity_led_count' > 0)
      /\ (branch = "activity" /\ branch' = "activity" /\ LedOn(LED_ACTV)) =>
           LedOn(LED_ACTV)'
    ]_vars

\* a second activity tick in a row is about to re-arm the LED, which is on
C12_Witness ==
  /\ pc = "consume"
  /\ branch = "activity"
  /\ actv_age = 1
  /\ LedOn(LED_ACTV)
  /\ activity_led_count > 0

(***************************************************************************)
(* C13.  Indicators do not influence the decision logic: two runs that get *)
(* the same ticks and the same ISR firings but are built with different    *)
(* LED durations, and so hold different LED counts, are always at the same *)
(* statement with the same timeout_counter and activity_flag, and drive    *)
(* the reset line at the same moments.                                     *)
(***************************************************************************)
C13_IndicatorsDoNotInterfere ==
  /\ run2.pc = pc
  /\ run2.counter = timeout_counter
  /\ run2.flag = activity_flag
  /\ (PIN_RSTO \in run2.ddrb) <=> ResetDriven

\* both runs fire a second reset in a row; the timeout LED of the first
\* run is still counting down, that of the second has long run out
C13_Witness ==
  /\ ResetDriven
  /\ PIN_RSTO \in run2.ddrb
  /\ run_origin = "fire"
  /\ timeout_led_count > 0
  /\ run2.tled = 0
  /\ LED_TIME \in PORTB

(***************************************************************************)
(* C14.  activity_flag becomes true only in a step of the ISR (the main    *)
(* loop stays where it is) and becomes false only in the activity branch   *)
(* of a tick that read it as true; every other step of the main loop (the  *)
(* idle branch, the timeout branch with its pulse, the delays, the LED     *)
(* updates) leaves it as it is, so a flag set during the pulse or the      *)
(* delay is still true when the flag is read next.                         *)
(***************************************************************************)
C14_FlagFrame ==
  [][ /\ (~activity_flag /\ activity_flag') =>
           (pc' = pc /\ SREG_I /\ isr_fires' > 0)
      /\ (activity_flag /\ ~activity_flag') =>
           (pc = "consume" /\ branch = "activity" /\ pc' # pc)
      /\ (pc' # pc /\ pc # "consume") => activity_flag' = activity_flag
    ]_vars

\* the ISR ran after the read of a tick that fired (in the timeout branch,
\* the pulse or the delay) and the flag is still set when the next tick is
\* about to read it
C14_Witness ==
  /\ pc = "read"
  /\ branch = "fire"
  /\ activity_flag
  /\ isr_fires > 0
  /\ timeout_counter = 0

(***************************************************************************)
(* C15.  Multiple triggers collapse: an ISR run in a state where the flag  *)
(* is already set (the state an earlier, not yet consumed run left) leaves *)
(* every variable of the program as it is, so two or more runs leave the   *)
(* state one run leaves; and the one activity branch that follows consumes *)
(* them all: unless the ISR has run again since the last read, the flag is *)
(* false once that branch is done.                                         *)
(***************************************************************************)
C15_TriggersCollapse ==
  [][ /\ (pc' = pc /\ activity_flag) =>
           UNCHANGED <<activity_flag, timeout_counter, timeout_led_count,
                       activity_led_count, DDRB, PORTB, SREG_I, i, pc>>
      /\ (isr_fires' = 0 /\ pc' # "consume") => ~activity_flag'
    ]_vars

\* the ISR ran at least twice since the last read, and the next read is due
C15_Witness ==
  /\ pc = "read"
  /\ isr_fires >= 2
  /\ activity_flag

(***************************************************************************)
(* C16.  Outside the timeout branch (no reset in progress) timeout_counter *)
(* is within 0..TIMEOUT_TICKS; inside the branch, where the increment of   *)
(* the firing tick has been applied and the counter is not yet cleared, it *)
(* is exactly TIMEOUT_TICKS + 1, so it never comes near the end of its     *)
(* 32-bit range.                                                           *)
(***************************************************************************)
C16_CounterRange ==
  /\ ~InTimeoutBranch => timeout_counter \in 0..TIMEOUT_TICKS
  /\ InTimeoutBranch => timeout_counter = TIMEOUT_TICKS + 1

\* an idle tick has ended with the counter at the threshold and no reset
C16_Witness ==
  /\ TickBoundary
  /\ branch = "idle"
  /\ timeout_counter = TIMEOUT_TICKS
  /\ ~ResetDriven

(***************************************************************************)
(* C17.  No activity is lost in effect: after every run of the ISR,        *)
(* wherever it falls (before the read, between the read and the clear,     *)
(* after the clear, in the pulse, in the delay), the main loop assigns     *)
(* timeout_counter = 0 later than that run and before a second tick has    *)
(* ended since it: at most the tick in progress ends first, and the        *)
(* assignment comes within the next one.                                   *)
(***************************************************************************)
C17_ActivityTakesEffect == owed < OwedCap

\* the ISR ran between the read and the clear: the clear has wiped the flag
\* but the same branch has zeroed the counter after that run
C17_Witness ==
  /\ pc = "led_time"
  /\ branch = "activity"
  /\ unseen
  /\ ~activity_flag
  /\ owed = 0
  /\ timeout_counter = 0

(***************************************************************************)
(* C18 as claimed.  The timeout LED is switched on only after the reset    *)
(* pulse of the same timeout has completed: a step of the running loop     *)
(* that turns the LED on comes after the assert and the release of the     *)
(* reset line in that tick.                                                *)
(***************************************************************************)
C18_LedOnlyAfterPulse ==
  [][ (SREG_I /\ ~LedOn(LED_TIME) /\ LedOn(LED_TIME)') => edges' = 2 ]_vars

(***************************************************************************)
(* C18 as amended.  A fired timeout switches the timeout LED on before it  *)
(* asserts the reset line (after the blink of the activity LED), so the    *)
(* LED is on whenever the line is driven; only the LED's countdown is      *)
(* armed after the pulse, once the line has been asserted and released.    *)
(***************************************************************************)
C18_LedOnBeforePulse ==
  [][ /\ (SREG_I /\ ~LedOn(LED_TIME) /\ LedOn(LED_TIME)') =>
           (pc = "timeout_led" /\ edges' = 0 /\ ~ResetDriven')
      /\ ResetDriven' => LedOn(LED_TIME)'
      /\ (timeout_led_count' > timeout_led_count) =>
           (pc = "rearm" /\ edges = 2 /\ ~ResetDriven)
    ]_vars

\* first timeout: the line is driven, the LED is already on and its
\* countdown has not been armed yet
C18_Witness ==
  /\ ResetDriven
  /\ LedOn(LED_TIME)
  /\ timeout_led_count = 0
  /\ edges = 1

(***************************************************************************)
(* C19.  At every tick boundary (the loop is in its delay or about to read *)
(* the flag, the LED updates of the previous iteration are done) each LED  *)
(* is on exactly when its count is positive, after any mix of activity     *)
(* ticks, idle ticks and fired resets.                                     *)
(***************************************************************************)
C19_LedOnIffCounting ==
  pc \in {"delay", "read"} =>
     /\ LedOn(LED_ACTV) <=> activity_led_count > 0
     /\ LedOn(LED_TIME) <=> timeout_led_count > 0

\* a tick that fired has ended: the blink has left the activity LED pin an
\* input with its count at zero, the timeout LED is on and counting
C19_Witness ==
  /\ TickBoundary
  /\ branch = "fire"
  /\ LED_ACTV \notin DDRB
  /\ activity_led_count = 0
  /\ LedOn(LED_TIME)
  /\ timeout_led_count = TIMEOUT_LED_TICKS - 1

=============================================================================
